---------------------------- MODULE Spec2Model ----------------------------
(***************************************************************************)
(* Model of the diff alignment and highlighting engine of the Text         *)
(* Comparator panel (src/src/textComparatorPanel.ts, _getHtmlForWebview    *)
(* and _processLineWithWordDiff).                                          *)
(*                                                                         *)
(* A string is a sequence of one-character strings.  The newline is the    *)
(* one-character string NL.  A row of a column is a record; the text of    *)
(* the column is the sequence of its rows.                                 *)
(***************************************************************************)
EXTENDS Integers, Sequences, FiniteSets, TLC

(***************************************************************************)
(* Bounds of the model.                                                    *)
(***************************************************************************)
\* longest document (in characters) read from a file
MaxLen == 3
\* longest edit script drawn directly (specification SpecOps)
MaxOps == 4
\* the largest number of save requests and replies under way at a time
MaxInFlight == 2

NL == "\n"
SP == " "
\* the characters a file may hold: a letter in both cases and the newline
\* (the space comes in through whitespace collapsing)
Chars == {"a", "A", NL}
\* the characters /\s/ matches
WhiteSpace == {NL, SP}
\* the characters _escapeHtml replaces
Special == {"&", "<", ">"}

RECURSIVE SeqsUpTo(_, _)
SeqsUpTo(S, n) ==
  IF n = 0 THEN {<<>>}
  ELSE LET shorter == SeqsUpTo(S, n - 1)
       IN  shorter \cup {<<c>> \o s : c \in S, s \in {t \in shorter : Len(t) = n - 1}}

Documents == SeqsUpTo(Chars, MaxLen)

RECURSIVE Concat(_)
Concat(ss) == IF ss = <<>> THEN <<>> ELSE Head(ss) \o Concat(Tail(ss))

Max(a, b) == IF a >= b THEN a ELSE b

(***************************************************************************)
(* String primitives of the language runtime.                              *)
(***************************************************************************)
\* String.prototype.toLowerCase
ToLowerChar(c) == IF c = "A" THEN "a" ELSE c
toLowerCase(s) == [j \in 1..Len(s) |-> ToLowerChar(s[j])]

\* variant of ReplaceWsRuns, s.replace(/\s\s/g, " "): the pattern takes two
\* whitespace characters at a time
RECURSIVE ReplaceWsPairs(_)
ReplaceWsPairs(s) ==
  IF s = <<>> THEN <<>>
  ELSE IF Head(s) \in WhiteSpace /\ Len(s) >= 2 /\ s[2] \in WhiteSpace
       THEN <<SP>> \o ReplaceWsPairs(Tail(Tail(s)))
       ELSE <<Head(s)>> \o ReplaceWsPairs(Tail(s))

\* s.replace(/\s+/g, " "): every maximal run of whitespace becomes one space
RECURSIVE ReplaceWsRuns(_)
ReplaceWsRuns(s) ==
  IF s = <<>> THEN <<>>
  ELSE IF Head(s) \in WhiteSpace
       THEN IF Len(s) >= 2 /\ s[2] \in WhiteSpace
            THEN ReplaceWsRuns(Tail(s))
            ELSE <<SP>> \o ReplaceWsRuns(Tail(s))
       ELSE <<Head(s)>> \o ReplaceWsRuns(Tail(s))

\* value.split("\n")
RECURSIVE split(_)
split(s) ==
  IF \A j \in 1..Len(s) : s[j] # NL THEN <<s>>
  ELSE LET p == CHOOSE j \in 1..Len(s) : s[j] = NL /\ \A h \in 1..(j - 1) : s[h] # NL
       IN  <<SubSeq(s, 1, p - 1)>> \o split(SubSeq(s, p + 1, Len(s)))

\* lines.join("\n")
RECURSIVE join(_)
join(ls) ==
  IF ls = <<>> THEN <<>>
  ELSE IF Len(ls) = 1 THEN ls[1]
       ELSE ls[1] \o <<NL>> \o join(Tail(ls))

(***************************************************************************)
(* The sequence-diff primitive of the "diff" package (diffLines and        *)
(* diffWordsWithSpace), by its contract: the result is an edit script of   *)
(* components {value, added, removed}; the components that are not added   *)
(* concatenate to the old text and those that are not removed to the new   *)
(* text; the script is a shortest one; in a changed region the removed     *)
(* component comes before the added one; neighbouring tokens of one kind   *)
(* form one component; equal inputs give one unchanged component.          *)
(***************************************************************************)
Component(v, a, r) == [value |-> v, added |-> a, removed |-> r]

\* diffLines' tokens: the lines, each with its newline
RECURSIVE TokenizeLines(_)
TokenizeLines(s) ==
  IF s = <<>> THEN <<>>
  ELSE IF \A j \in 1..Len(s) : s[j] # NL THEN <<s>>
       ELSE LET p == CHOOSE j \in 1..Len(s) : s[j] = NL /\ \A h \in 1..(j - 1) : s[h] # NL
            IN  <<SubSeq(s, 1, p)>> \o TokenizeLines(SubSeq(s, p + 1, Len(s)))

\* diffWordsWithSpace's tokens: the maximal runs of whitespace, of word
\* characters and of other characters
CharClass(c) == IF c \in WhiteSpace THEN "space" ELSE IF c \in Special THEN "punct" ELSE "word"

RECURSIVE TokenizeWords(_)
TokenizeWords(s) ==
  IF s = <<>> THEN <<>>
  ELSE LET n == CHOOSE j \in 1..Len(s) :
                  /\ \A h \in 1..j : CharClass(s[h]) = CharClass(s[1])
                  /\ (j < Len(s) => CharClass(s[j + 1]) # CharClass(s[1]))
       IN  <<SubSeq(s, 1, n)>> \o TokenizeWords(SubSeq(s, n + 1, Len(s)))

\* the token-by-token edit scripts from a to b in which, inside a changed
\* region, no removal follows an addition; afterAdd: the last step added
RECURSIVE Alignments(_, _, _)
Alignments(a, b, afterAdd) ==
  IF a = <<>> /\ b = <<>> THEN {<<>>}
  ELSE (IF a # <<>> /\ b # <<>> /\ Head(a) = Head(b)
        THEN {<<Component(Head(a), FALSE, FALSE)>> \o t : t \in Alignments(Tail(a), Tail(b), FALSE)}
        ELSE {})
       \cup
       (IF a # <<>> /\ ~afterAdd
        THEN {<<Component(Head(a), FALSE, TRUE)>> \o t : t \in Alignments(Tail(a), b, FALSE)}
        ELSE {})
       \cup
       (IF b # <<>>
        THEN {<<Component(Head(b), TRUE, FALSE)>> \o t : t \in Alignments(a, Tail(b), TRUE)}
        ELSE {})

\* the number of tokens a script changes
RECURSIVE EditCost(_)
EditCost(t) ==
  IF t = <<>> THEN 0
  ELSE (IF Head(t).added \/ Head(t).removed THEN 1 ELSE 0) + EditCost(Tail(t))

\* neighbouring components of one kind become one component
RECURSIVE MergeComponents(_)
MergeComponents(t) ==
  IF Len(t) <= 1 THEN t
  ELSE LET rest == MergeComponents(Tail(t))
       IN  IF Head(t).added = Head(rest).added /\ Head(t).removed = Head(rest).removed
           THEN <<Component(Head(t).value \o Head(rest).value, Head(t).added, Head(t).removed)>>
                  \o Tail(rest)
           ELSE <<Head(t)>> \o rest

\* the results the primitive may give for the token sequences a and b
DiffSequence(a, b) ==
  IF a = b THEN {<<Component(Concat(b), FALSE, FALSE)>>}
  ELSE LET all == Alignments(a, b, FALSE)
           best == {t \in all : \A u \in all : EditCost(t) <= EditCost(u)}
       IN  {MergeComponents(t) : t \in best}

diffLines(oldStr, newStr) == DiffSequence(TokenizeLines(oldStr), TokenizeLines(newStr))

diffWordsWithSpace(oldStr, newStr) == DiffSequence(TokenizeWords(oldStr), TokenizeWords(newStr))


(***************************************************************************)
(* The panel's state during one _getHtmlForWebview call.                   *)
(***************************************************************************)
VARIABLES
  file1Content,     \* the text read from file 1
  file2Content,     \* the text read from file 2
  ignoreWhitespace, \* configuration textComparator.ignoreWhitespace
  ignoreCase,       \* configuration textComparator.ignoreCase
  file1Normalized,  \* the first argument handed to diff.diffLines
  file2Normalized,  \* the second argument handed to diff.diffLines
  lineDiffResult,   \* the edit script diff.diffLines returned
  processedDiff,    \* the script after findModifiedBlocks
  i,                \* findModifiedBlocks' loop index (from 0)
  k,                \* index of the part processedDiff.forEach is at (from 0)
  file1Html,        \* the rows of the left column
  file2Html,        \* the rows of the right column
  lineNumber1,      \* the next line number of the left column
  lineNumber2,      \* the next line number of the right column
  pc                \* "diff", "find", "emit" or "done"

(***************************************************************************)
(* The panel, its webview page and the messages between them.              *)
(***************************************************************************)
VARIABLES
  fileUri,          \* _file1Uri and _file2Uri, by column
  fileChanged,      \* the page's file1Changed and file2Changed, by column
  statusText,       \* the text of file1-status and file2-status, by column
  viewContent,      \* what getFileContent reads off each column
  toHost,           \* the messages the page has posted, not yet handled
  writing,          \* the save handlers waiting for writeFile to return
  toView,           \* the messages the panel has posted, not yet handled
  disk              \* the content of each file

passVars == <<file1Content, file2Content, ignoreWhitespace, ignoreCase,
              file1Normalized, file2Normalized, lineDiffResult, processedDiff,
              i, k, file1Html, file2Html, lineNumber1, lineNumber2, pc>>

viewVars == <<fileUri, fileChanged, statusText, viewContent, toHost, writing, toView, disk>>

vars == <<passVars, viewVars>>

Columns == {1, 2}
Files == {"fileA", "fileB"}
\* the texts a file or a column may hold
Contents == {"text0", "text1"}

\* a page as the html's script leaves it once loaded: nothing changed, no
\* status shown, each column showing its file
PageLoaded(uri) ==
  /\ fileChanged = [f \in Columns |-> FALSE]
  /\ statusText = [f \in Columns |-> ""]
  /\ viewContent = [f \in Columns |-> disk[uri[f]]]

\* the panel as its constructor leaves it, for a pass looked at on its own
PanelConstructed ==
  /\ fileUri = [f \in Columns |-> IF f = 1 THEN "fileA" ELSE "fileB"]
  /\ disk = [u \in Files |-> "text0"]
  /\ PageLoaded(fileUri)
  /\ toHost = <<>>
  /\ writing = <<>>
  /\ toView = <<>>

\* variant of NormalizeContent: the case is never folded
NormalizeContentKeepCase(content, ignoreWs, ignoreCs) ==
  IF ignoreWs THEN ReplaceWsRuns(content) ELSE content

\* the text handed to diff.diffLines for a file's content
NormalizeContent(content, ignoreWs, ignoreCs) ==
  LET collapsed == IF ignoreWs THEN ReplaceWsRuns(content) ELSE content
  IN  IF ignoreCs THEN toLowerCase(collapsed) ELSE collapsed

\* a JavaScript property read used as a condition: a missing property is
\* undefined, which is falsy
Truthy(obj, field) == field \in DOMAIN obj /\ obj[field]

\* _escapeHtml: each special character becomes its entity
EscapeChar(c) ==
  IF c = "&" THEN "&amp;" ELSE IF c = "<" THEN "&lt;" ELSE IF c = ">" THEN "&gt;" ELSE c
escapeHtml(text) == [j \in 1..Len(text) |-> EscapeChar(text[j])]

\* the webview's reading of escaped text (textContent): each entity is its
\* character again
UnescapeChar(c) ==
  IF c = "&amp;" THEN "&" ELSE IF c = "&lt;" THEN "<" ELSE IF c = "&gt;" THEN ">" ELSE c
unescapeHtml(text) == [j \in 1..Len(text) |-> UnescapeChar(text[j])]

(***************************************************************************)
(* Html of a line: a sequence of nodes, a node being escaped text with     *)
(* the class of the span around it ("" for text outside any span).         *)
(***************************************************************************)
Node(cls, text) == [class |-> cls, text |-> text]
PlainHtml(text) == IF text = <<>> THEN <<>> ELSE <<Node("", text)>>

\* variant of RenderWordDiff: the column is not looked at, so that added and
\* removed words both show in either column
RECURSIVE RenderWordDiffBothColumns(_, _, _)
RenderWordDiffBothColumns(wordDiff, isFile1, isFile2) ==
  IF wordDiff = <<>> THEN <<>>
  ELSE LET part == Head(wordDiff)
           rest == RenderWordDiffBothColumns(Tail(wordDiff), isFile1, isFile2)
       IN  IF part.added
           THEN <<Node("word-diff word-added", escapeHtml(part.value))>> \o rest
           ELSE IF part.removed
                THEN <<Node("word-diff word-removed", escapeHtml(part.value))>> \o rest
                ELSE PlainHtml(escapeHtml(part.value)) \o rest

\* the forEach over wordDiff in _processLineWithWordDiff
RECURSIVE RenderWordDiff(_, _, _)
RenderWordDiff(wordDiff, isFile1, isFile2) ==
  IF wordDiff = <<>> THEN <<>>
  ELSE LET part == Head(wordDiff)
           rest == RenderWordDiff(Tail(wordDiff), isFile1, isFile2)
       IN  IF part.added /\ isFile2
           THEN <<Node("word-diff word-added", escapeHtml(part.value))>> \o rest
           ELSE IF part.removed /\ isFile1
                THEN <<Node("word-diff word-removed", escapeHtml(part.value))>> \o rest
                ELSE IF ~part.added /\ ~part.removed
                     THEN PlainHtml(escapeHtml(part.value)) \o rest
                     ELSE rest

\* _processLineWithWordDiff; wordDiff is what diff.diffWordsWithSpace(line1,
\* line2) returned, read only when both lines are non-empty
processLineWithWordDiff(line1, line2, isFile1, isFile2, wordDiff) ==
  IF line1 = <<>> THEN PlainHtml(escapeHtml(line2))
  ELSE IF line2 = <<>> THEN PlainHtml(escapeHtml(line1))
       ELSE RenderWordDiff(wordDiff, isFile1, isFile2)

\* the results diff.diffWordsWithSpace may give for a pair of lines; one
\* empty result stands for "not called" when a line is empty
WordDiffResults(line1, line2) ==
  IF line1 = <<>> \/ line2 = <<>> THEN {<<>>} ELSE diffWordsWithSpace(line1, line2)

\* variant of SplitLines: the last empty line is kept
SplitLinesKeepEmpty(value) == split(value)

\* value.split("\n") with the last empty line removed
SplitLines(value) ==
  LET lines == split(value)
  IN  IF lines[Len(lines)] = <<>> THEN SubSeq(lines, 1, Len(lines) - 1) ELSE lines

(***************************************************************************)
(* Rows.  A content row is a div with a line number and a line content;    *)
(* a placeholder is the div "line empty-line", which has neither.          *)
(***************************************************************************)
ContentRow(cls, number, html) == [class |-> cls, number |-> number, content |-> html]
EmptyLine == [class |-> "line empty-line"]

\* variant of AddedLeftRows: the left column gets nothing for an added line
AddedLeftRowsNone(lines) == <<>>

\* the rows lines.forEach appends for an added part, lines numbered from first
AddedLeftRows(lines) == [j \in 1..Len(lines) |-> EmptyLine]
AddedRightRows(lines, first) ==
  [j \in 1..Len(lines) |->
     ContentRow("line added", first + j - 1,
                processLineWithWordDiff(<<>>, lines[j], FALSE, TRUE, <<>>))]

\* variant of RemovedLeftRows: each removed line is one removed-word span
RemovedLeftRowsTagged(lines, first) ==
  [j \in 1..Len(lines) |->
     ContentRow("line removed", first + j - 1,
                <<Node("word-diff word-removed", escapeHtml(lines[j]))>>)]

\* the rows lines.forEach appends for a removed part
RemovedLeftRows(lines, first) ==
  [j \in 1..Len(lines) |->
     ContentRow("line removed", first + j - 1,
                processLineWithWordDiff(lines[j], <<>>, TRUE, FALSE, <<>>))]
RemovedRightRows(lines) == [j \in 1..Len(lines) |-> EmptyLine]

\* the rows lines.forEach appends to either column for an unchanged part
UnchangedRows(lines, first) ==
  [j \in 1..Len(lines) |-> ContentRow("line", first + j - 1, PlainHtml(escapeHtml(lines[j])))]

\* the line at index j (from 0) of a modified block's side, "" past its end
LineAt(lines, j) == IF j < Len(lines) THEN lines[j + 1] ELSE <<>>

\* variant of ModifiedRightRow: a placeholder where the new side has no text
ModifiedRightRowPlaceholder(oldLine, newLine, number, wordDiff) ==
  IF newLine = <<>> THEN EmptyLine
  ELSE ContentRow("line modified", number,
                  processLineWithWordDiff(oldLine, newLine, FALSE, TRUE, wordDiff))

\* the two rows of a modified block's line pair
ModifiedLeftRow(oldLine, newLine, number, wordDiff) ==
  ContentRow("line modified", number,
             processLineWithWordDiff(oldLine, newLine, TRUE, FALSE, wordDiff))
ModifiedRightRow(oldLine, newLine, number, wordDiff) ==
  ContentRow("line modified", number,
             processLineWithWordDiff(oldLine, newLine, FALSE, TRUE, wordDiff))

\* the row pairs the loop over a modified block's line pairs may append,
\* from pair j on: one choice of the word diff's result per pair
RECURSIVE ModifiedRows(_, _, _, _, _)
ModifiedRows(oldLines, newLines, j, number1, number2) ==
  IF j >= Max(Len(oldLines), Len(newLines)) THEN {[left |-> <<>>, right |-> <<>>]}
  ELSE LET oldLine == LineAt(oldLines, j)
           newLine == LineAt(newLines, j)
       IN  {[left  |-> <<ModifiedLeftRow(oldLine, newLine, number1 + j, wd)>> \o rest.left,
             right |-> <<ModifiedRightRow(oldLine, newLine, number2 + j, wd)>> \o rest.right] :
              wd \in WordDiffResults(oldLine, newLine),
              rest \in ModifiedRows(oldLines, newLines, j + 1, number1, number2)}

(***************************************************************************)
(* Actions.                                                                *)
(***************************************************************************)
\* the files and the configuration have been read
Init ==
  /\ file1Content \in Documents
  /\ file2Content \in Documents
  /\ ignoreWhitespace \in BOOLEAN
  /\ ignoreCase \in BOOLEAN
  /\ file1Normalized = <<>>
  /\ file2Normalized = <<>>
  /\ lineDiffResult = <<>>
  /\ processedDiff = <<>>
  /\ i = 0
  /\ k = 0
  /\ file1Html = <<>>
  /\ file2Html = <<>>
  /\ lineNumber1 = 1
  /\ lineNumber2 = 1
  /\ pc = "diff"
  /\ PanelConstructed

\* the line-level diff of the two normalized texts
DiffLines ==
  /\ pc = "diff"
  /\ file1Normalized' = NormalizeContent(file1Content, ignoreWhitespace, ignoreCase)
  /\ file2Normalized' = NormalizeContent(file2Content, ignoreWhitespace, ignoreCase)
  /\ lineDiffResult' \in diffLines(file1Normalized', file2Normalized')
  /\ pc' = "find"
  /\ UNCHANGED <<file1Content, file2Content, ignoreWhitespace, ignoreCase, processedDiff,
                 i, k, file1Html, file2Html, lineNumber1, lineNumber2>>
  /\ UNCHANGED viewVars

\* variant of IsRemoveThenAdd: the next op's kind is not looked at
IsRemoveThenAny(ops, idx) ==
  /\ ops[idx + 1].removed
  /\ idx + 1 < Len(ops)

\* variant of IsRemoveThenAdd: the two kinds are taken the other way round
IsAddThenRemove(ops, idx) ==
  /\ ops[idx + 1].added
  /\ idx + 1 < Len(ops)
  /\ ops[idx + 2].removed

\* the condition under which findModifiedBlocks merges the op at index i
\* with the next one
IsRemoveThenAdd(ops, idx) ==
  /\ ops[idx + 1].removed
  /\ idx + 1 < Len(ops)
  /\ ops[idx + 2].added

\* variant of ModifiedPart: the two values are taken the other way round
ModifiedPartSwapped(removed, added) ==
  [modified |-> TRUE, oldValue |-> added.value, newValue |-> removed.value]

\* the part findModifiedBlocks pushes for a removed op followed by an added op
ModifiedPart(removed, added) ==
  [modified |-> TRUE, oldValue |-> removed.value, newValue |-> added.value]

\* one iteration of findModifiedBlocks' loop, or its end
FindModifiedBlocks ==
  /\ pc = "find"
  /\ IF i < Len(lineDiffResult)
     THEN IF IsRemoveThenAdd(lineDiffResult, i)
          THEN /\ processedDiff' =
                    Append(processedDiff, ModifiedPart(lineDiffResult[i + 1], lineDiffResult[i + 2]))
               /\ i' = i + 2
               /\ pc' = pc
          ELSE /\ processedDiff' = Append(processedDiff, lineDiffResult[i + 1])
               /\ i' = i + 1
               /\ pc' = pc
     ELSE /\ pc' = "emit"
          /\ UNCHANGED <<processedDiff, i>>
  /\ UNCHANGED <<file1Content, file2Content, ignoreWhitespace, ignoreCase, file1Normalized,
                 file2Normalized, lineDiffResult, k, file1Html, file2Html, lineNumber1,
                 lineNumber2>>
  /\ UNCHANGED viewVars

\* the part processedDiff.forEach is at
part == processedDiff[k + 1]

EmitFrame ==
  /\ UNCHANGED <<file1Content, file2Content, ignoreWhitespace, ignoreCase, file1Normalized,
                 file2Normalized, lineDiffResult, processedDiff, i, pc>>
  /\ UNCHANGED viewVars

\* forEach body, part.modified
EmitModified ==
  /\ pc = "emit" /\ k < Len(processedDiff)
  /\ Truthy(part, "modified")
  /\ LET oldLines == SplitLines(part.oldValue)
         newLines == SplitLines(part.newValue)
         maxLines == Max(Len(oldLines), Len(newLines))
     IN  /\ \E rows \in ModifiedRows(oldLines, newLines, 0, lineNumber1, lineNumber2) :
              /\ file1Html' = file1Html \o rows.left
              /\ file2Html' = file2Html \o rows.right
         /\ lineNumber1' = lineNumber1 + maxLines
         /\ lineNumber2' = lineNumber2 + maxLines
  /\ k' = k + 1
  /\ EmitFrame

\* variant of EmitAdded: the added lines advance the left column's counter
EmitAddedLeftCounter ==
  /\ pc = "emit" /\ k < Len(processedDiff)
  /\ ~Truthy(part, "modified") /\ Truthy(part, "added")
  /\ LET lines == SplitLines(part.value)
     IN  /\ file1Html' = file1Html \o AddedLeftRows(lines)
         /\ file2Html' = file2Html \o AddedRightRows(lines, lineNumber2)
         /\ lineNumber1' = lineNumber1 + Len(lines)
  /\ UNCHANGED lineNumber2
  /\ k' = k + 1
  /\ EmitFrame

\* forEach body, part.added
EmitAdded ==
  /\ pc = "emit" /\ k < Len(processedDiff)
  /\ ~Truthy(part, "modified") /\ Truthy(part, "added")
  /\ LET lines == SplitLines(part.value)
     IN  /\ file1Html' = file1Html \o AddedLeftRows(lines)
         /\ file2Html' = file2Html \o AddedRightRows(lines, lineNumber2)
         /\ lineNumber2' = lineNumber2 + Len(lines)
  /\ UNCHANGED lineNumber1
  /\ k' = k + 1
  /\ EmitFrame

\* forEach body, part.removed
EmitRemoved ==
  /\ pc = "emit" /\ k < Len(processedDiff)
  /\ ~Truthy(part, "modified") /\ ~Truthy(part, "added") /\ Truthy(part, "removed")
  /\ LET lines == SplitLines(part.value)
     IN  /\ file1Html' = file1Html \o RemovedLeftRows(lines, lineNumber1)
         /\ file2Html' = file2Html \o RemovedRightRows(lines)
         /\ lineNumber1' = lineNumber1 + Len(lines)
  /\ UNCHANGED lineNumber2
  /\ k' = k + 1
  /\ EmitFrame

\* variant of EmitUnchanged: the right column's counter is not advanced
EmitUnchangedOneCounter ==
  /\ pc = "emit" /\ k < Len(processedDiff)
  /\ ~Truthy(part, "modified") /\ ~Truthy(part, "added") /\ ~Truthy(part, "removed")
  /\ LET lines == SplitLines(part.value)
     IN  /\ file1Html' = file1Html \o UnchangedRows(lines, lineNumber1)
         /\ file2Html' = file2Html \o UnchangedRows(lines, lineNumber2)
         /\ lineNumber1' = lineNumber1 + Len(lines)
         /\ lineNumber2' = lineNumber2
  /\ k' = k + 1
  /\ EmitFrame

\* forEach body, unchanged lines
EmitUnchanged ==
  /\ pc = "emit" /\ k < Len(processedDiff)
  /\ ~Truthy(part, "modified") /\ ~Truthy(part, "added") /\ ~Truthy(part, "removed")
  /\ LET lines == SplitLines(part.value)
     IN  /\ file1Html' = file1Html \o UnchangedRows(lines, lineNumber1)
         /\ file2Html' = file2Html \o UnchangedRows(lines, lineNumber2)
         /\ lineNumber1' = lineNumber1 + Len(lines)
         /\ lineNumber2' = lineNumber2 + Len(lines)
  /\ k' = k + 1
  /\ EmitFrame

\* forEach has passed the last part: the html is returned
EmitDone ==
  /\ pc = "emit" /\ k = Len(processedDiff)
  /\ pc' = "done"
  /\ UNCHANGED <<file1Content, file2Content, ignoreWhitespace, ignoreCase, file1Normalized,
                 file2Normalized, lineDiffResult, processedDiff, i, k, file1Html, file2Html,
                 lineNumber1, lineNumber2>>
  /\ UNCHANGED viewVars

Next ==
  \/ DiffLines
  \/ FindModifiedBlocks
  \/ EmitModified
  \/ EmitAdded
  \/ EmitRemoved
  \/ EmitUnchanged
  \/ EmitDone

Spec == Init /\ [][Next]_vars

(***************************************************************************)
(* The same pass started from an edit script drawn directly: every         *)
(* sequence of at most MaxOps components over OpValues that is an edit     *)
(* script of two texts (a value with no final newline ends its text).      *)
(* The two texts are read off the script, and nothing is ignored.          *)
(***************************************************************************)
OpValues == { <<"a", NL>>, <<NL, "A", SP, "<", NL>>, <<"a", SP, "A">> }

EditOps == { Component(v, a, r) : v \in OpValues, a \in BOOLEAN, r \in BOOLEAN } \
             { Component(v, TRUE, TRUE) : v \in OpValues }

\* the values of the components of ops that belong to the old text
\* (keepAdded = FALSE) or to the new text (keepAdded = TRUE)
RECURSIVE SideValues(_, _)
SideValues(ops, keepAdded) ==
  IF ops = <<>> THEN <<>>
  ELSE IF (keepAdded /\ Head(ops).removed) \/ (~keepAdded /\ Head(ops).added)
       THEN SideValues(Tail(ops), keepAdded)
       ELSE <<Head(ops).value>> \o SideValues(Tail(ops), keepAdded)

\* every value but the last ends with a newline
WholeLines(values) ==
  \A j \in 1..(Len(values) - 1) : values[j] # <<>> /\ values[j][Len(values[j])] = NL

EditScripts ==
  { ops \in SeqsUpTo(EditOps, MaxOps) :
      WholeLines(SideValues(ops, FALSE)) /\ WholeLines(SideValues(ops, TRUE)) }

InitOps ==
  /\ lineDiffResult \in EditScripts
  /\ file1Content = Concat(SideValues(lineDiffResult, FALSE))
  /\ file2Content = Concat(SideValues(lineDiffResult, TRUE))
  /\ ignoreWhitespace = FALSE
  /\ ignoreCase = FALSE
  /\ file1Normalized = file1Content
  /\ file2Normalized = file2Content
  /\ processedDiff = <<>>
  /\ i = 0
  /\ k = 0
  /\ file1Html = <<>>
  /\ file2Html = <<>>
  /\ lineNumber1 = 1
  /\ lineNumber2 = 1
  /\ pc = "find"
  /\ PanelConstructed

NextOps ==
  \/ FindModifiedBlocks
  \/ EmitModified
  \/ EmitAdded
  \/ EmitRemoved
  \/ EmitUnchanged
  \/ EmitDone

SpecOps == InitOps /\ [][NextOps]_vars

(***************************************************************************)
(* Editing and saving.  The page's rows are not followed here: a column's  *)
(* text, as getFileContent reads it, stands in viewContent, and a page is  *)
(* loaded showing its files' texts.  A save message carries, besides what  *)
(* the page posts, the file its column showed when it was posted (shown):  *)
(* the panel never reads it, the properties do.                            *)
(***************************************************************************)
\* updateFileStatus, on the status texts
updateFileStatus(texts, fileNum, status) ==
  [texts EXCEPT ![fileNum] = IF status = "unsaved" THEN "(unsaved changes)"
                             ELSE IF status = "saving" THEN "(saving...)"
                             ELSE ""]

InFlight == Len(toHost) + Len(writing) + Len(toView)

RemoveAt(seq, n) == SubSeq(seq, 1, n - 1) \o SubSeq(seq, n + 1, Len(seq))

\* an input event in a column's line content
HandleContentChange ==
  \E f \in Columns : \E text \in Contents :
    /\ viewContent' = [viewContent EXCEPT ![f] = text]
    /\ fileChanged' = [fileChanged EXCEPT ![f] = TRUE]
    /\ statusText' = updateFileStatus(statusText, f, "unsaved")
    /\ UNCHANGED <<passVars, fileUri, toHost, writing, toView, disk>>

\* a click on save-left or save-right
SaveClick ==
  \E f \in Columns :
    /\ fileChanged[f]
    /\ InFlight < MaxInFlight
    /\ statusText' = updateFileStatus(statusText, f, "saving")
    /\ toHost' = Append(toHost, [command |-> "save", file |-> f,
                                 content |-> viewContent[f], shown |-> fileUri[f]])
    /\ UNCHANGED <<passVars, fileUri, fileChanged, viewContent, writing, toView, disk>>

\* the panel's message handler, case "save", up to its await
OnDidReceiveMessage ==
  /\ toHost # <<>>
  /\ LET message == Head(toHost)
     IN  writing' = Append(writing, [file |-> message.file, fileUri |-> fileUri[message.file],
                                     content |-> message.content, shown |-> message.shown])
  /\ toHost' = Tail(toHost)
  /\ UNCHANGED <<passVars, fileUri, fileChanged, statusText, viewContent, toView, disk>>

\* writeFile returns: the handler goes on and posts "saved"
WriteFileReturns ==
  \E n \in 1..Len(writing) :
    /\ disk' = [disk EXCEPT ![writing[n].fileUri] = writing[n].content]
    /\ toView' = Append(toView, [command |-> "saved", file |-> writing[n].file])
    /\ writing' = RemoveAt(writing, n)
    /\ UNCHANGED <<passVars, fileUri, fileChanged, statusText, viewContent, toHost>>

\* writeFile throws: the handler's catch shows an error message
WriteFileThrows ==
  \E n \in 1..Len(writing) :
    /\ writing' = RemoveAt(writing, n)
    /\ UNCHANGED <<passVars, fileUri, fileChanged, statusText, viewContent, toHost, toView,
                   disk>>

\* the page's message listener, case 'saved'
OnWindowMessage ==
  /\ toView # <<>>
  /\ LET message == Head(toView)
     IN  /\ fileChanged' = [fileChanged EXCEPT ![message.file] = FALSE]
         /\ statusText' = updateFileStatus(statusText, message.file, "saved")
  /\ toView' = Tail(toView)
  /\ UNCHANGED <<passVars, fileUri, viewContent, toHost, writing, disk>>

\* _update: the html is set anew, so the page is loaded anew from the files
\* at uri; a reply on its way to the old page reaches the new one or is lost
Update(uri) ==
  /\ fileChanged' = [f \in Columns |-> FALSE]
  /\ statusText' = [f \in Columns |-> ""]
  /\ viewContent' = [f \in Columns |-> disk[uri[f]]]
  /\ toView' \in {toView, <<>>}
  /\ UNCHANGED <<passVars, toHost, writing, disk>>

\* the panel becomes visible again
OnDidChangeViewState ==
  /\ Update(fileUri)
  /\ UNCHANGED fileUri

\* createOrShow with the panel there: updateContent
UpdateContent ==
  \E uri \in [Columns -> Files] :
    /\ fileUri' = uri
    /\ Update(uri)

\* the panel constructed on any two files, its page loaded
InitSave ==
  /\ file1Content = <<>>
  /\ file2Content = <<>>
  /\ ignoreWhitespace = FALSE
  /\ ignoreCase = FALSE
  /\ file1Normalized = <<>>
  /\ file2Normalized = <<>>
  /\ lineDiffResult = <<>>
  /\ processedDiff = <<>>
  /\ i = 0
  /\ k = 0
  /\ file1Html = <<>>
  /\ file2Html = <<>>
  /\ lineNumber1 = 1
  /\ lineNumber2 = 1
  /\ pc = "done"
  /\ fileUri \in [Columns -> Files]
  /\ disk = [u \in Files |-> "text0"]
  /\ PageLoaded(fileUri)
  /\ toHost = <<>>
  /\ writing = <<>>
  /\ toView = <<>>

NextSave ==
  \/ HandleContentChange
  \/ SaveClick
  \/ OnDidReceiveMessage
  \/ WriteFileReturns
  \/ WriteFileThrows
  \/ OnWindowMessage
  \/ OnDidChangeViewState
  \/ UpdateContent

SpecSave == InitSave /\ [][NextSave]_vars

\* the panel handles each message it is sent, each writeFile call returns or
\* throws, and the page handles each message it is sent; nothing makes the
\* user edit or click
SpecSaveFair ==
  /\ InitSave /\ [][NextSave]_vars
  /\ WF_vars(OnDidReceiveMessage)
  /\ WF_vars(WriteFileReturns \/ WriteFileThrows)
  /\ WF_vars(OnWindowMessage)

(***************************************************************************)
(* What the properties below read off a row and off a value.               *)
(***************************************************************************)
IsPlaceholder(row) == row.class = "line empty-line"
IsContent(row) == ~IsPlaceholder(row)

\* the text a content row shows: the text of its nodes, entities decoded
RowText(row) == unescapeHtml(Concat([j \in 1..Len(row.content) |-> row.content[j].text]))

\* the texts of the content rows of a sequence of rows, in order
RECURSIVE ContentTexts(_)
ContentTexts(rows) ==
  IF rows = <<>> THEN <<>>
  ELSE IF IsPlaceholder(Head(rows)) THEN ContentTexts(Tail(rows))
       ELSE <<RowText(Head(rows))>> \o ContentTexts(Tail(rows))

\* the number of lines of a value: its newlines, and its last line when no
\* newline ends it
NumLines(value) ==
  Cardinality({j \in 1..Len(value) : value[j] = NL})
    + (IF value # <<>> /\ value[Len(value)] # NL THEN 1 ELSE 0)

EndsWithNewline(value) == value # <<>> /\ value[Len(value)] = NL

\* a value without the newline that ends it
WithoutFinalNewline(value) ==
  IF EndsWithNewline(value) THEN SubSeq(value, 1, Len(value) - 1) ELSE value

IsAddedOp(op) == ~Truthy(op, "modified") /\ Truthy(op, "added")
IsRemovedOp(op) == ~Truthy(op, "modified") /\ ~Truthy(op, "added") /\ Truthy(op, "removed")
IsUnchangedOp(op) ==
  ~Truthy(op, "modified") /\ ~Truthy(op, "added") /\ ~Truthy(op, "removed")

\* forEach is about to process a part, and this step processes it
EmitsPart == pc = "emit" /\ k < Len(processedDiff) /\ k' = k + 1

\* the rows this step appended to the left and to the right column
NewLeftRows == SubSeq(file1Html', Len(file1Html) + 1, Len(file1Html'))
NewRightRows == SubSeq(file2Html', Len(file2Html) + 1, Len(file2Html'))

(***************************************************************************)
(* C1  Alignment length: in every state of the pass, so after every part   *)
(* that has been emitted, the left column and the right column hold the    *)
(* same number of rows (content rows and placeholders together).           *)
(***************************************************************************)
C1_AlignmentLength == Len(file1Html) = Len(file2Html)

\* a finished pass that emitted a modified block, placeholders on the left
\* and placeholders on the right
C1_Witness ==
  /\ pc = "done"
  /\ \E j \in 1..Len(file1Html) : file1Html[j].class = "line modified"
  /\ \E j \in 1..Len(file1Html) : IsPlaceholder(file1Html[j])
  /\ \E j \in 1..Len(file2Html) : IsPlaceholder(file2Html[j])

(***************************************************************************)
(* C2  Reconstruction, on texts that no newline ends (the rows never show  *)
(* the empty line after a final newline): once the pass is done, the       *)
(* texts of the left column's content rows, joined by newlines, are the    *)
(* normalized text 1, and those of the right column's content rows are     *)
(* the normalized text 2.                                                  *)
(***************************************************************************)
C2_Reconstruction ==
  (pc = "done" /\ ~EndsWithNewline(file1Normalized) /\ ~EndsWithNewline(file2Normalized))
  => /\ join(ContentTexts(file1Html)) = file1Normalized
     /\ join(ContentTexts(file2Html)) = file2Normalized

(***************************************************************************)
(* C3  No-op case: when the edit script holds only unchanged ops, every    *)
(* row of both columns is a content row of class "line" (unchanged), no    *)
(* row is a placeholder, and at every index the two columns show the same  *)
(* text under the same line number.                                        *)
(***************************************************************************)
C3_NoOp ==
  (\A p \in 1..Len(lineDiffResult) : IsUnchangedOp(lineDiffResult[p]))
  => /\ Len(file1Html) = Len(file2Html)
     /\ \A j \in 1..Len(file1Html) :
          /\ file1Html[j].class = "line"
          /\ file2Html[j].class = "line"
          /\ RowText(file1Html[j]) = RowText(file2Html[j])
          /\ file1Html[j].number = file2Html[j].number

\* a finished pass over two unchanged ops that emitted three rows
C3_Witness ==
  /\ pc = "done"
  /\ Len(lineDiffResult) = 2
  /\ \A p \in 1..Len(lineDiffResult) : IsUnchangedOp(lineDiffResult[p])
  /\ Len(file1Html) = 3
  /\ file2Html[3].number = 3

(***************************************************************************)
(* C4  Pure addition and pure removal: a step that emits an added part of  *)
(* n lines appends n placeholders to the left column and n rows of class   *)
(* "line added" to the right column, which show the part's lines in order; *)
(* a step that emits a removed part of n lines appends n rows of class     *)
(* "line removed" to the left column, which show the part's lines in       *)
(* order, and n placeholders to the right column.                          *)
(***************************************************************************)
C4_PureAdditionRemoval ==
  [][ /\ (EmitsPart /\ IsAddedOp(part))
         => /\ Len(NewLeftRows) = NumLines(part.value)
            /\ Len(NewRightRows) = NumLines(part.value)
            /\ \A j \in 1..Len(NewLeftRows) : IsPlaceholder(NewLeftRows[j])
            /\ \A j \in 1..Len(NewRightRows) : NewRightRows[j].class = "line added"
            /\ join(ContentTexts(NewRightRows)) = WithoutFinalNewline(part.value)
      /\ (EmitsPart /\ IsRemovedOp(part))
         => /\ Len(NewLeftRows) = NumLines(part.value)
            /\ Len(NewRightRows) = NumLines(part.value)
            /\ \A j \in 1..Len(NewRightRows) : IsPlaceholder(NewRightRows[j])
            /\ \A j \in 1..Len(NewLeftRows) : NewLeftRows[j].class = "line removed"
            /\ join(ContentTexts(NewLeftRows)) = WithoutFinalNewline(part.value)
    ]_vars

\* the comparison of "" with a text of two lines has finished: two
\* placeholders on the left, two added rows on the right
C4_Witness ==
  /\ pc = "done"
  /\ file1Content = <<>>
  /\ lineDiffResult = <<Component(<<NL, "A", SP, "<", NL>>, TRUE, FALSE)>>
  /\ file1Html = <<EmptyLine, EmptyLine>>
  /\ Len(file2Html) = 2
  /\ RowText(file2Html[1]) = <<>>
  /\ RowText(file2Html[2]) = <<"A", SP, "<">>

(***************************************************************************)
(* C5  Adjacent modification: when the edit script is a removed op of one  *)
(* line followed by an added op of one line, the finished pass has one     *)
(* row in each column, both of class "line modified"; the left row shows   *)
(* the old line and the right row shows the new line.                      *)
(***************************************************************************)
C5_AdjacentModification ==
  ( /\ pc = "done"
    /\ Len(lineDiffResult) = 2
    /\ IsRemovedOp(lineDiffResult[1]) /\ NumLines(lineDiffResult[1].value) = 1
    /\ IsAddedOp(lineDiffResult[2]) /\ NumLines(lineDiffResult[2].value) = 1 )
  => /\ Len(file1Html) = 1 /\ Len(file2Html) = 1
     /\ file1Html[1].class = "line modified"
     /\ file2Html[1].class = "line modified"
     /\ RowText(file1Html[1]) = WithoutFinalNewline(lineDiffResult[1].value)
     /\ RowText(file2Html[1]) = WithoutFinalNewline(lineDiffResult[2].value)

(***************************************************************************)
(* Where an op of the edit script went: the parts of processedDiff take    *)
(* the ops in order, a modified part two of them and any other part one.   *)
(***************************************************************************)
\* the number of ops the parts take
RECURSIVE OpsTaken(_)
OpsTaken(parts) ==
  IF parts = <<>> THEN 0
  ELSE (IF Truthy(Head(parts), "modified") THEN 2 ELSE 1) + OpsTaken(Tail(parts))

\* the index (from 1) of the part that took the op at index p (from 1)
PartOfOp(p) ==
  CHOOSE m \in 1..Len(processedDiff) :
    /\ OpsTaken(SubSeq(processedDiff, 1, m - 1)) < p
    /\ p <= OpsTaken(SubSeq(processedDiff, 1, m))

\* the number of rows a part gives each column
RowsOfPart(pt) ==
  IF Truthy(pt, "modified")
  THEN Max(NumLines(pt.oldValue), NumLines(pt.newValue))
  ELSE NumLines(pt.value)

RECURSIVE RowsOfParts(_)
RowsOfParts(parts) ==
  IF parts = <<>> THEN 0 ELSE RowsOfPart(Head(parts)) + RowsOfParts(Tail(parts))

\* the indexes of the rows of part m
RowRange(m) ==
  LET before == RowsOfParts(SubSeq(processedDiff, 1, m - 1))
  IN  (before + 1)..(before + RowsOfPart(processedDiff[m]))

\* part m is the op itself and its rows are removed rows facing placeholders
EmittedAsRemoval(m, op) ==
  /\ processedDiff[m] = op
  /\ \A j \in RowRange(m) :
       /\ j <= Len(file1Html) /\ j <= Len(file2Html)
       /\ file1Html[j].class = "line removed"
       /\ IsPlaceholder(file2Html[j])

\* part m is the op itself and its rows are added rows facing placeholders
EmittedAsAddition(m, op) ==
  /\ processedDiff[m] = op
  /\ \A j \in RowRange(m) :
       /\ j <= Len(file1Html) /\ j <= Len(file2Html)
       /\ IsPlaceholder(file1Html[j])
       /\ file2Html[j].class = "line added"

(***************************************************************************)
(* C6  Non-adjacent modification is not merged: when a removed op and a    *)
(* later added op have one or more unchanged ops, and nothing else,        *)
(* between them, the finished pass holds both ops as parts of their own;   *)
(* the rows of the removed op are removed rows facing placeholders and the *)
(* rows of the added op are added rows facing placeholders, so none of     *)
(* them is of class "line modified".                                       *)
(***************************************************************************)
SeparatedByUnchanged(p, q) ==
  /\ p + 1 < q
  /\ IsRemovedOp(lineDiffResult[p])
  /\ IsAddedOp(lineDiffResult[q])
  /\ \A r \in (p + 1)..(q - 1) : IsUnchangedOp(lineDiffResult[r])

C6_NonAdjacentNotMerged ==
  pc = "done"
  => \A p, q \in 1..Len(lineDiffResult) :
       SeparatedByUnchanged(p, q)
       => /\ EmittedAsRemoval(PartOfOp(p), lineDiffResult[p])
          /\ EmittedAsAddition(PartOfOp(q), lineDiffResult[q])

\* a finished pass over removed, unchanged, added, each with rows
C6_Witness ==
  /\ pc = "done"
  /\ Len(lineDiffResult) = 3
  /\ SeparatedByUnchanged(1, 3)
  /\ Len(processedDiff) = 3
  /\ file1Html[1].class = "line removed"
  /\ file2Html[Len(file2Html)].class = "line added"

(***************************************************************************)
(* C7  Idempotence of normalization: under each of the four settings of    *)
(* ignoreWhitespace and ignoreCase, normalizing a text that was handed to  *)
(* the line diff gives that text again.                                    *)
(***************************************************************************)
C7_NormalizeIdempotent ==
  pc # "diff"
  => /\ NormalizeContent(file1Normalized, ignoreWhitespace, ignoreCase) = file1Normalized
     /\ NormalizeContent(file2Normalized, ignoreWhitespace, ignoreCase) = file2Normalized

\* both options set, and a text with a run of whitespace and an upper-case
\* letter has been normalized
C7_Witness ==
  /\ pc = "done"
  /\ ignoreWhitespace /\ ignoreCase
  /\ file1Content = <<"A", NL, NL>>
  /\ file1Normalized = <<"a", SP>>

(***************************************************************************)
(* C8  Case option: for two texts that differ only in letter case, the     *)
(* finished pass with ignoreCase set holds only rows of class "line"       *)
(* (unchanged) in both columns, and the finished pass with ignoreCase not  *)
(* set holds a row of class modified, added or removed.                    *)
(***************************************************************************)
DifferOnlyInCase(s, t) == s # t /\ toLowerCase(s) = toLowerCase(t)

ChangedClasses == {"line modified", "line added", "line removed"}

C8_IgnoreCase ==
  (pc = "done" /\ DifferOnlyInCase(file1Content, file2Content))
  => IF ignoreCase
     THEN /\ \A j \in 1..Len(file1Html) : file1Html[j].class = "line"
          /\ \A j \in 1..Len(file2Html) : file2Html[j].class = "line"
     ELSE \/ \E j \in 1..Len(file1Html) : file1Html[j].class \in ChangedClasses
          \/ \E j \in 1..Len(file2Html) : file2Html[j].class \in ChangedClasses

\* "Aaa" has been compared with "aaa", case ignored: one unchanged row
C8_Witness ==
  /\ pc = "done"
  /\ ignoreCase
  /\ file1Content = <<"A", "a", "a">>
  /\ file2Content = <<"a", "a", "a">>
  /\ Len(file1Html) = 1
  /\ file1Html[1].class = "line"
  /\ file2Html[1].class = "line"

(***************************************************************************)
(* C9  Modification detection partitions the edit script: at every point   *)
(* of findModifiedBlocks' loop the parts pushed so far take the ops before *)
(* the loop index, each once and in order: a modified part takes a removed *)
(* op and the added op right after it, its oldValue the removed op's value *)
(* and its newValue the added op's value, and any other part is the op     *)
(* itself; after the loop all ops are taken; the number of parts is the    *)
(* number of ops taken less the number of modified parts.                  *)
(***************************************************************************)
\* the ops the parts stand for
RECURSIVE OpsOfParts(_)
OpsOfParts(parts) ==
  IF parts = <<>> THEN <<>>
  ELSE (IF Truthy(Head(parts), "modified")
        THEN <<Component(Head(parts).oldValue, FALSE, TRUE),
               Component(Head(parts).newValue, TRUE, FALSE)>>
        ELSE <<Head(parts)>>)
       \o OpsOfParts(Tail(parts))

NumModified(parts) == Cardinality({m \in 1..Len(parts) : Truthy(parts[m], "modified")})

C9_Partition ==
  /\ i <= Len(lineDiffResult)
  /\ OpsOfParts(processedDiff) = SubSeq(lineDiffResult, 1, i)
  /\ Len(processedDiff) = i - NumModified(processedDiff)
  /\ pc \in {"emit", "done"} => i = Len(lineDiffResult)

\* the loop has ended on four ops, of which two were merged
C9_Witness ==
  /\ pc = "emit"
  /\ Len(lineDiffResult) = 4
  /\ Len(processedDiff) = 3
  /\ Truthy(processedDiff[2], "modified")
  /\ processedDiff[2].oldValue # processedDiff[2].newValue

(***************************************************************************)
(* C10  Runs: ops p..q-1 are removed ops and ops q..e are added ops, two   *)
(* or more of each, and the run is not part of a longer one.               *)
(***************************************************************************)
RemovedAddedRun(p, q, e) ==
  /\ p + 1 < q /\ q < e
  /\ \A r \in p..(q - 1) : IsRemovedOp(lineDiffResult[r])
  /\ \A r \in q..e : IsAddedOp(lineDiffResult[r])
  /\ (p > 1 => ~IsRemovedOp(lineDiffResult[p - 1]))
  /\ (e < Len(lineDiffResult) => ~IsAddedOp(lineDiffResult[e + 1]))

(***************************************************************************)
(* C10 as claimed: in the finished pass the one modified part of such a    *)
(* run pairs the first removed op of the run with its first added op, and  *)
(* the other ops of the run are emitted as removals and additions.         *)
(***************************************************************************)
C10_FirstRemovedFirstAdded ==
  pc = "done"
  => \A p, q, e \in 1..Len(lineDiffResult) :
       RemovedAddedRun(p, q, e)
       => /\ processedDiff[PartOfOp(p)] = ModifiedPart(lineDiffResult[p], lineDiffResult[q])
          /\ \A r \in (p + 1)..(q - 1) : EmittedAsRemoval(PartOfOp(r), lineDiffResult[r])
          /\ \A r \in (q + 1)..e : EmittedAsAddition(PartOfOp(r), lineDiffResult[r])

(***************************************************************************)
(* C10 as amended: in the finished pass the one modified part of such a    *)
(* run pairs the last removed op of the run with the first added op of     *)
(* the run (the two that are next to each other), and the other ops of     *)
(* the run are emitted as removals and additions.                          *)
(***************************************************************************)
C10_LastRemovedFirstAdded ==
  pc = "done"
  => \A p, q, e \in 1..Len(lineDiffResult) :
       RemovedAddedRun(p, q, e)
       => /\ PartOfOp(q - 1) = PartOfOp(q)
          /\ processedDiff[PartOfOp(q)] = ModifiedPart(lineDiffResult[q - 1], lineDiffResult[q])
          /\ \A r \in p..(q - 2) : EmittedAsRemoval(PartOfOp(r), lineDiffResult[r])
          /\ \A r \in (q + 1)..e : EmittedAsAddition(PartOfOp(r), lineDiffResult[r])

\* a finished pass over removed, removed, added, added with distinct values
\* next to each other
C10_Witness ==
  /\ pc = "done"
  /\ Len(lineDiffResult) = 4
  /\ RemovedAddedRun(1, 3, 4)
  /\ lineDiffResult[1].value # lineDiffResult[2].value
  /\ Len(processedDiff) = 3
  /\ Truthy(processedDiff[2], "modified")

(***************************************************************************)
(* C11  Modified block rows: the step that emits a modified block of p     *)
(* old lines and q new lines appends exactly max(p, q) rows to each        *)
(* column, and every one of them, on either side, is a content row of      *)
(* class modified with a line number, never a placeholder, also at the     *)
(* indexes where the shorter side has no line.                             *)
(***************************************************************************)
IsNumberedRow(row, cls) ==
  /\ row.class = cls
  /\ DOMAIN row = {"class", "number", "content"}
  /\ row.number \in Nat \ {0}

C11_ModifiedBlockRows ==
  [][EmitsPart /\ Truthy(part, "modified") =>
       LET p == NumLines(part.oldValue)
           q == NumLines(part.newValue)
           m == IF p >= q THEN p ELSE q
       IN  /\ Len(NewLeftRows) = m
           /\ Len(NewRightRows) = m
           /\ \A j \in 1..m : /\ IsNumberedRow(NewLeftRows[j], "line modified")
                              /\ IsNumberedRow(NewRightRows[j], "line modified")]_vars

\* a finished pass with a modified block of one old line and two new lines,
\* whose second left row stands where the old side has no line
C11_Witness ==
  /\ pc = "done"
  /\ \E m \in 1..Len(processedDiff) :
       /\ Truthy(processedDiff[m], "modified")
       /\ NumLines(processedDiff[m].oldValue) = 1
       /\ NumLines(processedDiff[m].newValue) = 2
       /\ Cardinality(RowRange(m)) = 2
       /\ \A j \in RowRange(m) : /\ IsNumberedRow(file1Html[j], "line modified")
                                 /\ IsNumberedRow(file2Html[j], "line modified")

(***************************************************************************)
(* C12  Line numbering: in each column on its own, the content rows carry  *)
(* the numbers 1, 2, 3, ... in order, so the k-th content row has number   *)
(* k whatever placeholders stand between the content rows, and the         *)
(* column's counter is one more than the number of its content rows: it    *)
(* depends on nothing the other column holds.                              *)
(***************************************************************************)
RECURSIVE ContentNumbers(_)
ContentNumbers(rows) ==
  IF rows = <<>> THEN <<>>
  ELSE IF IsPlaceholder(Head(rows)) THEN ContentNumbers(Tail(rows))
       ELSE <<Head(rows).number>> \o ContentNumbers(Tail(rows))

NumberedFromOne(rows, counter) ==
  LET numbers == ContentNumbers(rows)
  IN  /\ \A n \in 1..Len(numbers) : numbers[n] = n
      /\ counter = Len(numbers) + 1

C12_LineNumbering ==
  /\ NumberedFromOne(file1Html, lineNumber1)
  /\ NumberedFromOne(file2Html, lineNumber2)

\* a finished pass where the columns hold different numbers of content rows
\* and each holds a placeholder before its last content row
C12_Witness ==
  /\ pc = "done"
  /\ lineNumber1 # lineNumber2
  /\ lineNumber1 > 2 /\ lineNumber2 > 2
  /\ \E a \in 1..Len(file1Html) : \E b \in 1..Len(file1Html) :
       /\ IsPlaceholder(file1Html[a]) /\ a < b /\ IsContent(file1Html[b])
  /\ \E a \in 1..Len(file2Html) : \E b \in 1..Len(file2Html) :
       /\ IsPlaceholder(file2Html[a]) /\ a < b /\ IsContent(file2Html[b])

(***************************************************************************)
(* C13  Word highlighting: for a line pair of a modified block whose old   *)
(* and new line are both non-empty, there is a word diff of the two lines  *)
(* such that the left row holds exactly its unchanged and removed tokens,  *)
(* in order, the removed ones tagged as removed words, and the right row   *)
(* exactly its unchanged and added tokens, the added ones tagged as added  *)
(* words; the left row reads as the old line, the right row as the new.    *)
(***************************************************************************)
\* the lines of a value, counted as NumLines counts them
LinesOfValue(value) == IF NumLines(value) = 0 THEN <<>> ELSE split(WithoutFinalNewline(value))

NotAdded(token) == ~token.added
NotRemoved(token) == ~token.removed

\* the tokens of a word diff one column keeps, each with its tag
KeptLeft(wordDiff) ==
  LET kept == SelectSeq(wordDiff, NotAdded)
  IN  [n \in 1..Len(kept) |->
         Node(IF kept[n].removed THEN "word-diff word-removed" ELSE "",
              escapeHtml(kept[n].value))]
KeptRight(wordDiff) ==
  LET kept == SelectSeq(wordDiff, NotRemoved)
  IN  [n \in 1..Len(kept) |->
         Node(IF kept[n].added THEN "word-diff word-added" ELSE "",
              escapeHtml(kept[n].value))]

C13_WordHighlighting ==
  [][EmitsPart /\ Truthy(part, "modified") =>
       LET oldLines == LinesOfValue(part.oldValue)
           newLines == LinesOfValue(part.newValue)
       IN  \A j \in 1..Len(NewLeftRows) :
             (j <= Len(oldLines) /\ j <= Len(newLines)
                /\ oldLines[j] # <<>> /\ newLines[j] # <<>>) =>
               /\ j <= Len(NewRightRows)
               /\ \E wordDiff \in diffWordsWithSpace(oldLines[j], newLines[j]) :
                    /\ NewLeftRows[j].content = KeptLeft(wordDiff)
                    /\ NewRightRows[j].content = KeptRight(wordDiff)
               /\ RowText(NewLeftRows[j]) = oldLines[j]
               /\ RowText(NewRightRows[j]) = newLines[j]]_vars

HasNode(row, cls) == \E n \in 1..Len(row.content) : row.content[n].class = cls

\* a finished pass with a modified row pair whose left row holds a removed
\* word next to unchanged text and whose right row holds the unchanged text
\* only, and one whose right row holds an added word next to unchanged text
C13_Witness ==
  /\ pc = "done"
  /\ \E j \in 1..Len(file1Html) :
       /\ file1Html[j].class = "line modified"
       /\ file2Html[j].class = "line modified"
       /\ \/ /\ HasNode(file1Html[j], "word-diff word-removed")
             /\ HasNode(file1Html[j], "")
             /\ HasNode(file2Html[j], "")
             /\ ~HasNode(file2Html[j], "word-diff word-removed")
             /\ RowText(file1Html[j]) # RowText(file2Html[j])
          \/ /\ HasNode(file2Html[j], "word-diff word-added")
             /\ HasNode(file2Html[j], "")
             /\ HasNode(file1Html[j], "")
             /\ ~HasNode(file1Html[j], "word-diff word-added")
             /\ RowText(file1Html[j]) # RowText(file2Html[j])

(***************************************************************************)
(* C14  Removed lines, as stated: the step that emits a removed part       *)
(* appends one left row per line whose content is a single span over the   *)
(* whole line tagged as a removed word, and advances the left counter by   *)
(* one per line.                                                           *)
(***************************************************************************)
C14_RemovedWordSpan ==
  [][EmitsPart /\ IsRemovedOp(part) =>
       LET lines == LinesOfValue(part.value)
       IN  /\ Len(NewLeftRows) = Len(lines)
           /\ \A j \in 1..Len(NewLeftRows) :
                NewLeftRows[j].content =
                  <<Node("word-diff word-removed", escapeHtml(lines[j]))>>
           /\ lineNumber1' = lineNumber1 + Len(lines)]_vars

(***************************************************************************)
(* C14  Removed lines, as the code has them: the step that emits a removed *)
(* part appends one left row of class removed per line, whose content is   *)
(* the whole line as one piece of text outside any word span (and nothing  *)
(* at all for an empty line), and advances the left counter by one per     *)
(* line, leaving the right counter as it is.                               *)
(***************************************************************************)
C14_RemovedPlainLine ==
  [][EmitsPart /\ IsRemovedOp(part) =>
       LET lines == LinesOfValue(part.value)
       IN  /\ Len(NewLeftRows) = Len(lines)
           /\ \A j \in 1..Len(NewLeftRows) :
                /\ IsNumberedRow(NewLeftRows[j], "line removed")
                /\ NewLeftRows[j].content =
                     IF lines[j] = <<>> THEN <<>> ELSE <<Node("", escapeHtml(lines[j]))>>
           /\ lineNumber1' = lineNumber1 + Len(lines)
           /\ lineNumber2' = lineNumber2]_vars

\* a finished pass with a removed part of two lines, one empty and one not,
\* whose left rows are removed rows
C14_Witness ==
  /\ pc = "done"
  /\ \E m \in 1..Len(processedDiff) :
       /\ IsRemovedOp(processedDiff[m])
       /\ NumLines(processedDiff[m].value) = 2
       /\ \A j \in RowRange(m) : file1Html[j].class = "line removed"
       /\ \E j \in RowRange(m) : file1Html[j].content = <<>>
       /\ \E j \in RowRange(m) : HasNode(file1Html[j], "")

(***************************************************************************)
(* C15  Columns show their own document: when the pass is done, every      *)
(* content row of the left column shows a line of document 1 and every     *)
(* content row of the right column shows a line of document 2 (the         *)
(* documents as compared, after the options), also in the rows of a        *)
(* modified block where the old or the new line is empty or missing.       *)
(***************************************************************************)
\* the lines of a document, a last empty one included
LinesOfDocument(document) == {split(document)[j] : j \in 1..Len(split(document))}

ShowsLinesOf(rows, document) ==
  \A j \in 1..Len(rows) : IsContent(rows[j]) => RowText(rows[j]) \in LinesOfDocument(document)

C15_OwnDocument ==
  pc = "done" =>
    /\ ShowsLinesOf(file1Html, file1Normalized)
    /\ ShowsLinesOf(file2Html, file2Normalized)

(***************************************************************************)
(* C16  Saving ends: a column whose status is "(saving...)" eventually     *)
(* shows another status, whether writeFile returns or throws.              *)
(***************************************************************************)
InSaving(f) == statusText[f] = "(saving...)"

C16_SavingEnds == \A f \in Columns : InSaving(f) ~> ~InSaving(f)

(***************************************************************************)
(* C17  Saved means written: whenever the page handles a 'saved' reply     *)
(* for a column, so clears its changed flag and its status, the column's   *)
(* file holds the column's content.                                        *)
(***************************************************************************)
C17_SavedIsWritten ==
  [][OnWindowMessage =>
       LET f == Head(toView).file
       IN  disk'[fileUri'[f]] = viewContent'[f]]_vars

(***************************************************************************)
(* C18  Saved to the shown file: every save the panel has taken up writes  *)
(* to the file its column showed when the save was asked for.              *)
(***************************************************************************)
C18_WrittenToShownFile ==
  \A n \in 1..Len(writing) : writing[n].fileUri = writing[n].shown

=============================================================================
